---- MODULE Spec2Model ----
(***************************************************************************)
(* A model of tim, the tmux plugin manager (kjnsn/tim): the version        *)
(* resolution and upgrade engine (lib: Version, SemanticVersion,           *)
(* GitVersion, maxVersion, FindBestVersion, VersionFromSpec), the plugin   *)
(* lifecycle (Plugin.Install, CheckInstalled, Uninstall, Load), the        *)
(* lockfile (GetLockfile, Save) and the commands built on them (add,       *)
(* upgrade, load).                                                         *)
(*                                                                         *)
(* A Go string is a sequence of one-character strings, so that parsing,    *)
(* prefixing, trimming and splitting are computed and not assumed.         *)
(***************************************************************************)
EXTENDS Integers, Sequences, FiniteSets, TLC

\* ------------------------------------------------------------------------
\* Bounds of the model.

\* Longest list of candidate tags handed to maxVersion in SpecVersion.
MaxLen == 3

\* Plugins the lockfile and the commands range over.
NPlugins == 2

\* Most entries a plugin's directory holds when Load reads it.
MaxEntries == 2

\* Plugins of the lockfile on which upgrade commands are run one after the
\* other, any number of times.
SeqPlugins == 1

\* ------------------------------------------------------------------------
\* Strings.

\* The bytes the model's strings are made of, in ASCII order.
Alphabet ==
    << "\n", " ", "+", "-", ".", "/",
       "0", "1", "2", "3", "4", "5", "6", "7", "8", "9",
       "a", "b", "c", "d", "e", "f", "g", "h", "i", "j", "k", "l", "m",
       "n", "o", "p", "q", "r", "s", "t", "u", "v", "w", "x", "y", "z" >>

Ord(c) == CHOOSE i \in 1..Len(Alphabet) : Alphabet[i] = c

IsDigit(c) == c \in {"0", "1", "2", "3", "4", "5", "6", "7", "8", "9"}

IsLower(c) == Ord("a") <= Ord(c) /\ Ord(c) <= Ord("z")

IsSpace(c) == c \in {" ", "\n"}

Take(s, n) == SubSeq(s, 1, n)

Drop(s, n) == SubSeq(s, n + 1, Len(s))

\* Go's < on strings: bytewise lexicographic order.
RECURSIVE StrLess(_, _)
StrLess(x, y) ==
    IF y = <<>> THEN FALSE
    ELSE IF x = <<>> THEN TRUE
    ELSE IF x[1] = y[1] THEN StrLess(Tail(x), Tail(y))
    ELSE Ord(x[1]) < Ord(y[1])

RECURSIVE TrimLeft(_)
TrimLeft(s) == IF s # <<>> /\ IsSpace(s[1]) THEN TrimLeft(Tail(s)) ELSE s

RECURSIVE TrimRight(_)
TrimRight(s) ==
    IF s # <<>> /\ IsSpace(s[Len(s)]) THEN TrimRight(Take(s, Len(s) - 1)) ELSE s

\* strings.TrimSpace
TrimSpace(s) == TrimRight(TrimLeft(s))

\* strings.Split(s, "\n"): always at least one element.
RECURSIVE SplitAcc(_, _)
SplitAcc(s, cur) ==
    IF s = <<>> THEN << cur >>
    ELSE IF s[1] = "\n" THEN << cur >> \o SplitAcc(Tail(s), <<>>)
    ELSE SplitAcc(Tail(s), Append(cur, s[1]))

SplitLines(s) == SplitAcc(s, <<>>)

\* The text git prints for a list of refs: one per line.
RECURSIVE JoinLines(_)
JoinLines(l) ==
    IF l = <<>> THEN <<>>
    ELSE IF Len(l) = 1 THEN l[1]
    ELSE l[1] \o << "\n" >> \o JoinLines(Tail(l))

\* ------------------------------------------------------------------------
\* golang.org/x/mod/semver, as the library computes it.

RECURSIVE DigitRun(_)
DigitRun(v) == IF v = <<>> \/ ~IsDigit(v[1]) THEN 0 ELSE 1 + DigitRun(Tail(v))

NoInt == [ok |-> FALSE, t |-> <<>>, rest |-> <<>>]

parseInt(v) ==
    LET Cut(i) == IF v[1] = "0" /\ i # 1 THEN NoInt
                  ELSE [ok |-> TRUE, t |-> Take(v, i), rest |-> Drop(v, i)]
    IN  IF v = <<>> THEN NoInt
        ELSE IF ~IsDigit(v[1]) THEN NoInt
        ELSE Cut(DigitRun(v))

isIdentChar(c) == IsDigit(c) \/ IsLower(c) \/ c = "-"

isBadNum(v) ==
    LET Bad(i) == i = Len(v) /\ i > 1 /\ v[1] = "0"
    IN  Bad(DigitRun(v))

isNum(v) == DigitRun(v) = Len(v)

\* The scan of parsePrerelease/parseBuild from byte i on: the index where the
\* scan stops, or 0 when an identifier is empty, holds a bad byte or (when
\* nums is set) is a number with a leading zero.
RECURSIVE identScan(_, _, _, _, _)
identScan(v, i, start, stopAtPlus, nums) ==
    IF i > Len(v) \/ (stopAtPlus /\ v[i] = "+")
    THEN IF start = i \/ (nums /\ isBadNum(SubSeq(v, start, i - 1))) THEN 0 ELSE i
    ELSE IF ~isIdentChar(v[i]) /\ v[i] # "." THEN 0
    ELSE IF v[i] = "."
         THEN IF start = i \/ (nums /\ isBadNum(SubSeq(v, start, i - 1))) THEN 0
              ELSE identScan(v, i + 1, i + 1, stopAtPlus, nums)
         ELSE identScan(v, i + 1, start, stopAtPlus, nums)

parsePrerelease(v) ==
    LET Cut(i) == IF i = 0 THEN NoInt
                  ELSE [ok |-> TRUE, t |-> Take(v, i - 1), rest |-> Drop(v, i - 1)]
    IN  IF v = <<>> \/ v[1] # "-" THEN NoInt
        ELSE Cut(identScan(v, 2, 2, TRUE, TRUE))

parseBuild(v) ==
    LET Cut(i) == IF i = 0 THEN NoInt
                  ELSE [ok |-> TRUE, t |-> Take(v, i - 1), rest |-> Drop(v, i - 1)]
    IN  IF v = <<>> \/ v[1] # "+" THEN NoInt
        ELSE Cut(identScan(v, 2, 2, FALSE, FALSE))

NotParsed ==
    [ok |-> FALSE, major |-> <<>>, minor |-> <<>>, patch |-> <<>>, prerelease |-> <<>>]

Parsed(ma, mi, pa, pre) ==
    [ok |-> TRUE, major |-> ma, minor |-> mi, patch |-> pa, prerelease |-> pre]

\* The tail of parse after the patch number: prerelease, build, end of string.
parseTail(ma, mi, pa, v) ==
    LET NoPart(w) == [ok |-> TRUE, t |-> <<>>, rest |-> w]
        AfterBuild(pre, bld) ==
            IF ~bld.ok THEN NotParsed
            ELSE IF bld.rest # <<>> THEN NotParsed
            ELSE Parsed(ma, mi, pa, pre.t)
        AfterPrerelease(pre) ==
            IF ~pre.ok THEN NotParsed
            ELSE AfterBuild(pre, IF pre.rest # <<>> /\ pre.rest[1] = "+"
                                 THEN parseBuild(pre.rest)
                                 ELSE NoPart(pre.rest))
    IN  AfterPrerelease(IF v # <<>> /\ v[1] = "-" THEN parsePrerelease(v)
                        ELSE NoPart(v))

parse(v) ==
    LET AfterPatch(ma, mi, pa) ==
            IF ~pa.ok THEN NotParsed
            ELSE parseTail(ma.t, mi.t, pa.t, pa.rest)
        AfterMinor(ma, mi) ==
            IF ~mi.ok THEN NotParsed
            ELSE IF mi.rest = <<>> THEN Parsed(ma.t, mi.t, << "0" >>, <<>>)
            ELSE IF mi.rest[1] # "." THEN NotParsed
            ELSE AfterPatch(ma, mi, parseInt(Tail(mi.rest)))
        AfterMajor(ma) ==
            IF ~ma.ok THEN NotParsed
            ELSE IF ma.rest = <<>> THEN Parsed(ma.t, << "0" >>, << "0" >>, <<>>)
            ELSE IF ma.rest[1] # "." THEN NotParsed
            ELSE AfterMinor(ma, parseInt(Tail(ma.rest)))
    IN  IF v = <<>> \/ v[1] # "v" THEN NotParsed
        ELSE AfterMajor(parseInt(Tail(v)))

IsValid(v) == parse(v).ok

compareInt(x, y) ==
    IF x = y THEN 0
    ELSE IF Len(x) < Len(y) THEN -1
    ELSE IF Len(x) > Len(y) THEN 1
    ELSE IF StrLess(x, y) THEN -1
    ELSE 1

\* nextIdent: the identifier up to the next '.', and what follows it.
RECURSIVE identLen(_)
identLen(x) == IF x = <<>> \/ x[1] = "." THEN 0 ELSE 1 + identLen(Tail(x))

RECURSIVE comparePrereleaseLoop(_, _)
comparePrereleaseLoop(x, y) ==
    LET nextIdent(x1) == Take(x1, identLen(x1))
        Idents2(dx, dy) ==
            IF dx # dy
            THEN IF isNum(dx) # isNum(dy)
                 THEN IF isNum(dx) THEN -1 ELSE 1
                 ELSE IF isNum(dx) /\ Len(dx) < Len(dy) THEN -1
                 ELSE IF isNum(dx) /\ Len(dx) > Len(dy) THEN 1
                 ELSE IF StrLess(dx, dy) THEN -1
                 ELSE 1
            ELSE comparePrereleaseLoop(Drop(Tail(x), Len(dx)), Drop(Tail(y), Len(dy)))
    IN  IF x = <<>> \/ y = <<>>
        THEN IF x = <<>> THEN -1 ELSE 1
        ELSE Idents2(nextIdent(Tail(x)), nextIdent(Tail(y)))

comparePrerelease(x, y) ==
    IF x = y THEN 0
    ELSE IF x = <<>> THEN 1
    ELSE IF y = <<>> THEN -1
    ELSE comparePrereleaseLoop(x, y)

Compare(v, w) ==
    LET Fields(pv, pw) ==
            IF ~pv.ok /\ ~pw.ok THEN 0
            ELSE IF ~pv.ok THEN -1
            ELSE IF ~pw.ok THEN 1
            ELSE IF compareInt(pv.major, pw.major) # 0 THEN compareInt(pv.major, pw.major)
            ELSE IF compareInt(pv.minor, pw.minor) # 0 THEN compareInt(pv.minor, pw.minor)
            ELSE IF compareInt(pv.patch, pw.patch) # 0 THEN compareInt(pv.patch, pw.patch)
            ELSE comparePrerelease(pv.prerelease, pw.prerelease)
    IN  Fields(parse(v), parse(w))

\* ------------------------------------------------------------------------
\* Semantic-version precedence as semver.org states it (section 11), on the
\* numeric values of the fields: what the claims mean by "greater".

RECURSIVE NumVal(_)
NumVal(d) ==
    IF d = <<>> THEN 0
    ELSE 10 * NumVal(Take(d, Len(d) - 1)) + (Ord(d[Len(d)]) - Ord("0"))

\* The identifiers of a prerelease "-a.b.c".
RECURSIVE Idents(_)
Idents(x) ==
    IF x = <<>> THEN <<>>
    ELSE LET r == Tail(x)
             n == identLen(r)
         IN  << Take(r, n) >> \o Idents(Drop(r, n))

IdentPrecedes(a, b) ==
    IF isNum(a) /\ isNum(b) THEN NumVal(a) < NumVal(b)
    ELSE IF isNum(a) THEN TRUE
    ELSE IF isNum(b) THEN FALSE
    ELSE StrLess(a, b)

RECURSIVE PreListPrecedes(_, _)
PreListPrecedes(p, q) ==
    IF p = <<>> THEN q # <<>>
    ELSE IF q = <<>> THEN FALSE
    ELSE IF p[1] = q[1] THEN PreListPrecedes(Tail(p), Tail(q))
    ELSE IdentPrecedes(p[1], q[1])

\* v has lower precedence than w; both must be valid semantic versions.
SemverPrecedes(v, w) ==
    /\ IsValid(v)
    /\ IsValid(w)
    /\ LET a  == parse(v)
           b  == parse(w)
           a1 == NumVal(a.major)
           a2 == NumVal(a.minor)
           a3 == NumVal(a.patch)
           b1 == NumVal(b.major)
           b2 == NumVal(b.minor)
           b3 == NumVal(b.patch)
       IN  \/ a1 < b1
           \/ a1 = b1 /\ a2 < b2
           \/ a1 = b1 /\ a2 = b2 /\ a3 < b3
           \/ /\ a1 = b1 /\ a2 = b2 /\ a3 = b3
              /\ \/ a.prerelease # <<>> /\ b.prerelease = <<>>
                 \/ /\ a.prerelease # <<>>
                    /\ b.prerelease # <<>>
                    /\ PreListPrecedes(Idents(a.prerelease), Idents(b.prerelease))

Elems(l) == { l[i] : i \in 1..Len(l) }

\* m is a greatest element of l among the valid semantic versions of l.
IsGreatestValid(m, l) ==
    /\ m \in Elems(l)
    /\ IsValid(m)
    /\ \A e \in Elems(l) : IsValid(e) => ~SemverPrecedes(m, e)

\* ------------------------------------------------------------------------
\* lib: versions.

\* The first tag of the list, whatever the others are.
firstVersion(versions) == IF Len(versions) = 0 THEN <<>> ELSE versions[1]

\* slices.MaxFunc: the first maximal element.
RECURSIVE maxFuncFrom(_, _)
maxFuncFrom(m, rest) ==
    IF rest = <<>> THEN m
    ELSE IF Compare(rest[1], m) > 0 THEN maxFuncFrom(rest[1], Tail(rest))
    ELSE maxFuncFrom(m, Tail(rest))

maxVersion(versions) ==
    IF Len(versions) = 0 THEN <<>>
    ELSE maxFuncFrom(versions[1], Tail(versions))

NilVersion == [kind |-> "nil"]

SemanticVersion(current, latest) ==
    [kind |-> "sem", currentVersion |-> current, latestVersion |-> latest]

GitVersion(hash, br, latest) ==
    [kind |-> "git", currentHash |-> hash, branch |-> br, latestHash |-> latest]

\* VersionFromSpec keeping the spec as written when it is a semantic version
\* only after "v" is prepended.
VersionFromSpecUnprefixed(spec) ==
    IF IsValid(spec) \/ IsValid(<< "v" >> \o spec) THEN SemanticVersion(spec, <<>>)
    ELSE GitVersion(<<>>, spec, <<>>)

VersionFromSpec(spec) ==
    IF IsValid(spec) THEN SemanticVersion(spec, <<>>)
    ELSE IF IsValid(<< "v" >> \o spec) THEN SemanticVersion(<< "v" >> \o spec, <<>>)
    ELSE GitVersion(<<>>, spec, <<>>)

\* SvHasUpgrade with >= in place of == 1: an equal latest counts as an upgrade.
SvHasUpgradeNotLess(sv) ==
    IF sv.latestVersion # <<>> /\ Compare(sv.latestVersion, sv.currentVersion) >= 0
    THEN [ok |-> TRUE, new |-> SemanticVersion(sv.latestVersion, <<>>), recv |-> sv]
    ELSE [ok |-> FALSE, new |-> NilVersion, recv |-> sv]

\* SvHasUpgrade taking any latest that differs from current for an upgrade.
SvHasUpgradeAnyOther(sv) ==
    IF sv.latestVersion # <<>> /\ Compare(sv.latestVersion, sv.currentVersion) # 0
    THEN [ok |-> TRUE, new |-> SemanticVersion(sv.latestVersion, <<>>), recv |-> sv]
    ELSE [ok |-> FALSE, new |-> NilVersion, recv |-> sv]

\* SvHasUpgrade forgetting latest once it has reported it.
SvHasUpgradeOnce(sv) ==
    IF sv.latestVersion # <<>> /\ Compare(sv.latestVersion, sv.currentVersion) = 1
    THEN [ok |-> TRUE, new |-> SemanticVersion(sv.latestVersion, <<>>),
          recv |-> [sv EXCEPT !.latestVersion = <<>>]]
    ELSE [ok |-> FALSE, new |-> NilVersion, recv |-> sv]

\* What a method leaves behind: the receiver after the call, and what it returns.
SvHasUpgrade(sv) ==
    IF sv.latestVersion # <<>> /\ Compare(sv.latestVersion, sv.currentVersion) = 1
    THEN [ok |-> TRUE, new |-> SemanticVersion(sv.latestVersion, <<>>), recv |-> sv]
    ELSE [ok |-> FALSE, new |-> NilVersion, recv |-> sv]

\* GvHasUpgrade without the test that currentHash is set.
GvHasUpgradeUnresolved(gv) ==
    IF gv.latestHash # <<>> /\ gv.currentHash # gv.latestHash
    THEN [ok |-> TRUE, new |-> GitVersion(gv.latestHash, gv.branch, <<>>), recv |-> gv]
    ELSE [ok |-> FALSE, new |-> NilVersion, recv |-> gv]

GvHasUpgrade(gv) ==
    IF gv.currentHash # <<>> /\ gv.latestHash # <<>> /\ gv.currentHash # gv.latestHash
    THEN [ok |-> TRUE, new |-> GitVersion(gv.latestHash, gv.branch, <<>>), recv |-> gv]
    ELSE [ok |-> FALSE, new |-> NilVersion, recv |-> gv]

HasUpgrade(v) == IF v.kind = "sem" THEN SvHasUpgrade(v) ELSE GvHasUpgrade(v)

GitRef(v) == IF v.kind = "sem" THEN v.currentVersion ELSE v.branch

\* RunGitCommand returning what git printed even when the command failed.
RunGitCommandKeepsOutput(ok, out) == TrimSpace(out)

\* The answers of git to one method call: whether each command succeeds and
\* what it prints.  RunGitCommand trims the output and returns "" on failure.
RunGitCommand(ok, out) == IF ok THEN TrimSpace(out) ELSE <<>>

SvCheck(sv, g) ==
    IF ~g.fetchOk THEN [err |-> "git", recv |-> sv]
    ELSE IF ~g.tagOk THEN [err |-> "git", recv |-> sv]
    ELSE LET Latest(latest) ==
                 IF latest = <<>> THEN [err |-> "ErrNoVersions", recv |-> sv]
                 ELSE [err |-> "nil", recv |-> [sv EXCEPT !.latestVersion = latest]]
             Listed(versions) == Latest(maxVersion(SplitLines(versions)))
         IN  Listed(RunGitCommand(TRUE, g.tagOut))

GvCheck(gv, g) ==
    IF ~g.fetchOk THEN [err |-> "git", recv |-> gv]
    ELSE [err  |-> IF g.upstreamOk THEN "nil" ELSE "git",
          recv |-> [gv EXCEPT !.latestHash = RunGitCommand(g.upstreamOk, g.upstreamOut)]]

Check(v, g) == IF v.kind = "sem" THEN SvCheck(v, g) ELSE GvCheck(v, g)

FindBestVersion(g) ==
    IF ~g.fetchOk THEN [err |-> "git", version |-> NilVersion]
    ELSE IF ~g.tagOk THEN [err |-> "git", version |-> NilVersion]
    ELSE LET Highest(highestSemver) ==
                 IF highestSemver # <<>>
                 THEN [err |-> "nil", version |-> SemanticVersion(highestSemver, <<>>)]
                 ELSE IF ~g.branchOk THEN [err |-> "git", version |-> NilVersion]
                 ELSE IF ~g.shortOk THEN [err |-> "git", version |-> NilVersion]
                 ELSE [err     |-> "nil",
                       version |-> GitVersion(RunGitCommand(TRUE, g.shortOut),
                                              RunGitCommand(TRUE, g.branchOut), <<>>)]
             Listed(versions) == Highest(maxVersion(SplitLines(versions)))
         IN  Listed(RunGitCommand(TRUE, g.tagOut))

\* ------------------------------------------------------------------------
\* The strings of the model.

Empty == <<>>

V100 == << "v", "1", ".", "0", ".", "0" >>

V120 == << "v", "1", ".", "2", ".", "0" >>

\* "1.0.0": a semantic version only after "v" is prepended.
U100 == << "1", ".", "0", ".", "0" >>

\* "vnext": a tag that `git tag --list v*` prints and that is no semantic version.
VNext == << "v", "n", "e", "x", "t" >>

Main == << "m", "a", "i", "n" >>

OriginMain == << "o", "r", "i", "g", "i", "n", "/" >> \o Main

\* Commits of a remote: what rev-parse prints for them with --short and with --verify.
Commits ==
    { [full |-> << "a", "1", "b", "2" >>, short |-> << "a", "1" >>],
      [full |-> << "c", "3", "d", "4" >>, short |-> << "c", "3" >>] }

\* ------------------------------------------------------------------------
\* State.

VARIABLES
    file,       \* the bytes of the lockfile on disk, as a sequence of JSON tokens
    disk,       \* per plugin: its directory under the plugins directory
    lockFile,   \* the *Lockfile of the running command: handle and PluginSpecs
    run,        \* the running command: its arguments, position and exit status
    tasks,      \* upgrade-all: the goroutine of each plugin
    mutex,      \* upgrade-all: lockSync, the name of the holder or NoOwner
    ver,        \* SpecVersion: the Version value under test
    ret         \* SpecVersion: the last call and what it returned

vars == << file, disk, lockFile, run, tasks, mutex, ver, ret >>

cmdVars == << file, disk, lockFile, run, tasks, mutex >>

\* ------------------------------------------------------------------------
\* lib: the lockfile.

\* Plugin names, in the order encoding/json sorts map keys.
AllNames == << "acme/widgets", "bob/status", "cat/theme", "dan/keys" >>

Names == { AllNames[i] : i \in 1..NPlugins }

NoMap == [k \in {} |-> Empty]

\* A Go map[string]string: nil until something allocates it.
NilSpecs == [nil |-> TRUE, m |-> NoMap]

Specs(m) == [nil |-> FALSE, m |-> m]

\* m[k] of a Go map: the zero value for a missing key, also on a nil map.
MapGet(ps, k) == IF k \in DOMAIN ps.m THEN ps.m[k] ELSE Empty

MapSet(m, k, v) == [x \in (DOMAIN m) \cup {k} |-> IF x = k THEN v ELSE m[x]]

MapDelete(m, k) == [x \in (DOMAIN m) \ {k} |-> m[x]]

Tok(t, k, v) == [t |-> t, key |-> k, value |-> v]

TokOpen == Tok("{", "", Empty)

TokClose == Tok("}", "", Empty)

TokNull == Tok("null", "", Empty)

\* A byte past the end of a truncated file that a write leaves behind it.
TokZero == Tok("0", "", Empty)

RECURSIVE EncodeEntries(_, _)
EncodeEntries(m, i) ==
    IF i > Len(AllNames) THEN <<>>
    ELSE IF AllNames[i] \in DOMAIN m
         THEN << Tok("entry", AllNames[i], m[AllNames[i]]) >> \o EncodeEntries(m, i + 1)
         ELSE EncodeEntries(m, i + 1)

\* json.Encoder.Encode of the Lockfile: {"plugins": null} for a nil map, else
\* the entries with their keys sorted.
Marshal(ps) ==
    IF ps.nil THEN << TokNull >>
    ELSE << TokOpen >> \o EncodeEntries(ps.m, 1) \o << TokClose >>

RECURSIVE DecodeEntries(_, _)
DecodeEntries(toks, m) ==
    IF toks = <<>> THEN [ok |-> FALSE, ps |-> NilSpecs]
    ELSE IF toks[1] = TokClose
         THEN IF Len(toks) = 1 THEN [ok |-> TRUE, ps |-> Specs(m)]
              ELSE [ok |-> FALSE, ps |-> NilSpecs]
    ELSE IF toks[1].t = "entry"
         THEN DecodeEntries(Tail(toks), MapSet(m, toks[1].key, toks[1].value))
    ELSE [ok |-> FALSE, ps |-> NilSpecs]

\* json.Unmarshal into a fresh Lockfile.
Unmarshal(toks) ==
    IF toks = << TokNull >> THEN [ok |-> TRUE, ps |-> NilSpecs]
    ELSE IF toks # <<>> /\ toks[1] = TokOpen THEN DecodeEntries(Tail(toks), NoMap)
    ELSE [ok |-> FALSE, ps |-> NilSpecs]

NoLockfile == [open |-> FALSE, offset |-> 0, PluginSpecs |-> NilSpecs]

\* A GetLockfile that takes a file it cannot parse for an empty one.
GetLockfileLenient(bytes) ==
    IF Len(bytes) > 0 /\ Unmarshal(bytes).ok
    THEN [err |-> "nil",
          lf  |-> [open |-> TRUE, offset |-> Len(bytes),
                   PluginSpecs |-> Unmarshal(bytes).ps]]
    ELSE [err |-> "nil", lf |-> [open |-> TRUE, offset |-> 0, PluginSpecs |-> NilSpecs]]

\* GetLockfile: the file is created when absent (an absent file reads as an
\* empty one), read to its end, and parsed only when it is not empty.
GetLockfile(bytes) ==
    IF Len(bytes) > 0
    THEN LET Unmarshalled(u) ==
                 IF u.ok
                 THEN [err |-> "nil",
                       lf  |-> [open |-> TRUE, offset |-> Len(bytes), PluginSpecs |-> u.ps]]
                 ELSE [err |-> "json", lf |-> NoLockfile]
         IN  Unmarshalled(Unmarshal(bytes))
    ELSE [err |-> "nil", lf |-> [open |-> TRUE, offset |-> 0, PluginSpecs |-> NilSpecs]]

\* Lockfile.Plugins: one Plugin per entry, its Version parsed from the spec.
Plugins(lf) == [n \in DOMAIN lf.PluginSpecs.m |-> VersionFromSpec(lf.PluginSpecs.m[n])]

\* A Truncate that leaves the file as long as it was.
TruncateNothing(bytes) == bytes

\* os.File.Truncate(0) leaves the offset where it is.
Truncate(bytes) == <<>>

\* os.File.Write at an offset: a hole before it reads as zero bytes.
RECURSIVE Zeros(_)
Zeros(n) == IF n <= 0 THEN <<>> ELSE << TokZero >> \o Zeros(n - 1)

WriteAt(bytes, offset, data) ==
    Take(bytes, offset) \o Zeros(offset - Len(bytes)) \o data
        \o Drop(bytes, offset + Len(data))

\* Lockfile.Save under the answer io of the filesystem: the error it returns,
\* the bytes of the file and the handle afterwards.
Save(lf, bytes, io) ==
    IF io = "truncate fails" THEN [err |-> "io", bytes |-> bytes, lf |-> lf]
    ELSE IF io = "write fails"
         THEN [err |-> "io", bytes |-> Truncate(bytes), lf |-> [lf EXCEPT !.offset = 0]]
    ELSE LET Encoded(data) ==
                 [err   |-> "nil",
                  bytes |-> WriteAt(Truncate(bytes), 0, data),
                  lf    |-> [lf EXCEPT !.offset = Len(data)]]
         IN  Encoded(Marshal(lf.PluginSpecs))

IoAnswers == {"ok", "truncate fails", "write fails"}

\* ------------------------------------------------------------------------
\* The answers of git and of the filesystem to the calls of one operation.

\* The tags matching v* that a remote may hold, in the order git lists them.
RemoteTags == { <<>>, << V100 >>, << V100, V120, VNext >> }

\* Everything succeeds but the step named by fail; the remote holds tags and commit c.
Ans(fail, tags, c) ==
    [ mkdirOk       |-> fail # "mkdir",
      cloneOk       |-> fail # "clone",
      fetchOk       |-> fail # "fetch",
      tagOk         |-> fail # "tag",
      tags          |-> tags,
      tagOut        |-> JoinLines(tags),
      branchOk      |-> fail # "branch",
      branchOut     |-> OriginMain,
      shortOk       |-> fail # "short",
      shortOut      |-> c.short,
      upstreamOk    |-> fail # "upstream",
      upstreamOut   |-> c.full,
      checkoutOk    |-> fail # "checkout",
      branchForceOk |-> fail # "branch -f",
      removeOk      |-> fail # "remove" ]

\* The commit a clone finds at the head of the default branch.
HeadCommit == CHOOSE c \in Commits : c.short = << "a", "1" >>

\* The tags a remote holds when a plugin is installed: none, or releases
\* newer than the ones a lockfile pins.
InstallTags == { <<>>, << V100, V120, VNext >> }

InstallAnswers ==
    { Ans(f, t, HeadCommit) : f \in {"none", "checkout"}, t \in InstallTags }
        \cup { Ans(f, <<>>, HeadCommit) :
                   f \in {"mkdir", "clone", "fetch", "tag", "branch", "short"} }

CheckAnswers ==
    { Ans(f, t, c) : f \in {"none", "fetch", "tag", "upstream"},
                     t \in RemoteTags, c \in Commits }

UpgradeAnswers ==
    { Ans(f, <<>>, HeadCommit) : f \in {"none", "checkout", "branch -f"} }

\* ------------------------------------------------------------------------
\* lib: the plugin on disk.

\* What is at the path of a plugin's directory: nothing ("absent"), a
\* directory ("empty", or "cloned" with the ref checked out), a regular file
\* ("file"), or something stat cannot reach, as when a component of the path
\* is a file or may not be searched ("denied").
NoDir == [state |-> "absent", head |-> Empty]

NotADir == [state |-> "file", head |-> Empty]

Unreachable == [state |-> "denied", head |-> Empty]

\* os.Stat(pluginDir): the FileInfo ("nil" when there is none) and the error.
Stat(d) ==
    IF d.state = "absent" THEN [info |-> "nil", err |-> "ENOENT"]
    ELSE IF d.state = "denied" THEN [info |-> "nil", err |-> "EACCES"]
    ELSE IF d.state = "file" THEN [info |-> "file", err |-> "nil"]
    ELSE [info |-> "dir", err |-> "nil"]

\* os.IsNotExist
IsNotExist(err) == err = "ENOENT"

\* Plugin.CheckInstalled: what it returns, "panic" when fsInfo.IsDir() is
\* called on the nil FileInfo that a failed Stat returns.
CheckInstalled(d) ==
    LET Statted(s) ==
            IF IsNotExist(s.err) THEN "ErrPluginNotInstalled"
            ELSE IF s.info = "nil" THEN "panic"
            ELSE IF s.info # "dir" THEN "ErrPluginNotInstalled"
            ELSE IF s.err # "nil" THEN s.err
            ELSE "nil"
    IN  Statted(Stat(d))

\* The entries fs.ReadDir finds in a plugin's directory, in the order of
\* their names: whether the name ends in ".tmux", whether the entry is a
\* regular file, and whether running it succeeds.
EntryKinds ==
    { [tmux |-> TRUE,  regular |-> TRUE,  ok |-> TRUE],
      [tmux |-> TRUE,  regular |-> TRUE,  ok |-> FALSE],
      [tmux |-> FALSE, regular |-> TRUE,  ok |-> TRUE],
      [tmux |-> TRUE,  regular |-> FALSE, ok |-> TRUE] }

EntryLists == UNION { [1..k -> EntryKinds] : k \in 0..MaxEntries }

\* The loop of Plugin.Load from entry i on: the error it returns and the
\* entries it has run.
RECURSIVE RunScripts(_, _, _)
RunScripts(entries, i, ran) ==
    IF i > Len(entries) THEN [err |-> "nil", ran |-> ran]
    ELSE IF entries[i].tmux /\ entries[i].regular
         THEN IF entries[i].ok THEN RunScripts(entries, i + 1, Append(ran, i))
              ELSE [err |-> "exit", ran |-> Append(ran, i)]
    ELSE RunScripts(entries, i + 1, ran)

\* Plugin.Load: fs.ReadDir fails when the plugin's path is no directory.
Load(d, entries) ==
    IF d.state \notin {"empty", "cloned"} THEN [err |-> "fs", ran |-> <<>>]
    ELSE RunScripts(entries, 1, <<>>)

\* An Uninstall that removes nothing.
UninstallKeepsDir(d, a) == [err |-> "nil", dir |-> d]

\* Plugin.Uninstall: os.RemoveAll(pluginDir), which succeeds on a path that
\* does not exist.
Uninstall(d, a) ==
    IF d.state = "denied" \/ ~a.removeOk THEN [err |-> "fs", dir |-> d]
    ELSE [err |-> "nil", dir |-> NoDir]

\* os.MkdirAll
MkdirAll(d) == IF d.state = "absent" THEN [state |-> "empty", head |-> Empty] ELSE d

\* Plugin.Install(versionSpec): the error, p.Version and the directory afterwards.
\* git refuses to clone into a directory that is not empty.
Install(d, versionSpec, a) ==
    IF ~a.mkdirOk \/ d.state \in {"file", "denied"}
    THEN [err |-> "fs", version |-> NilVersion, dir |-> d]
    ELSE IF ~a.cloneOk \/ MkdirAll(d).state = "cloned"
         THEN [err |-> "git", version |-> NilVersion, dir |-> MkdirAll(d)]
    ELSE LET cloned == [state |-> "cloned", head |-> Main]
             Found(bestVersion) ==
                 IF bestVersion.err # "nil"
                 THEN [err |-> bestVersion.err, version |-> NilVersion, dir |-> cloned]
                 ELSE IF ~a.checkoutOk
                      THEN [err |-> "git", version |-> bestVersion.version, dir |-> cloned]
                 ELSE [err     |-> "nil",
                       version |-> bestVersion.version,
                       dir     |-> [cloned EXCEPT !.head = GitRef(bestVersion.version)]]
         IN  Found(FindBestVersion(a))

\* Version.Upgrade(pluginDir) of the new version: the error and the directory.
SvUpgrade(v, d, a) ==
    IF d.state # "cloned" \/ ~a.checkoutOk THEN [err |-> "git", dir |-> d]
    ELSE [err |-> "nil", dir |-> [d EXCEPT !.head = GitRef(v)]]

GvUpgrade(v, d, a) ==
    IF d.state # "cloned" \/ ~a.checkoutOk THEN [err |-> "git", dir |-> d]
    ELSE IF ~a.branchForceOk
         THEN [err |-> "git", dir |-> [d EXCEPT !.head = GitRef(v)]]
    ELSE [err |-> "nil", dir |-> [d EXCEPT !.head = GitRef(v)]]

Upgrade(v, d, a) == IF v.kind = "sem" THEN SvUpgrade(v, d, a) ELSE GvUpgrade(v, d, a)

\* A git command run in a directory that holds no repository fails.
InRepo(d, a) == IF d.state = "cloned" THEN a ELSE [a EXCEPT !.fetchOk = FALSE]

\* cmd/upgrade newVersion(plugin): Check, then HasUpgrade.
newVersion(version, a) ==
    LET Asked(h) ==
            [err     |-> "nil",
             new     |-> IF h.ok THEN h.new ELSE NilVersion,
             version |-> h.recv]
        Checked(c) ==
            IF c.err # "nil" THEN [err |-> c.err, new |-> NilVersion, version |-> c.recv]
            ELSE Asked(HasUpgrade(c.recv))
    IN  Checked(Check(version, a))

\* ------------------------------------------------------------------------
\* cmd: the commands.

NoOwner == ""

NoTasks == [n \in {} |-> NilVersion]

IdleRun ==
    [ cmd         |-> "none",      \* add, sync, upgrade, upgradeAll, load
      name        |-> "",          \* the plugin argument
      args        |-> {},          \* load: the plugins named
      versionSpec |-> Empty,       \* add --version
      check       |-> FALSE,       \* upgrade --check
      pc          |-> "idle",      \* idle, sync, tasks, save, done
      status      |-> "ok",        \* ok, error (message.Error: exit 1), panic
      saves       |-> 0,           \* calls of Save
      before      |-> NilSpecs,    \* PluginSpecs as GetLockfile returned it
      todo        |-> {},          \* sync: the entries not yet installed
      version     |-> NilVersion ] \* add: plugin.Version after Install

\* No command is running: a new process may start.
Idle == run.pc = "idle"

\* The process of the command ends: its memory is gone, the lockfile and the
\* plugin directories stay.
Exit ==
    /\ run.pc = "done"
    /\ run' = IdleRun
    /\ lockFile' = NoLockfile
    /\ tasks' = NoTasks
    /\ UNCHANGED << file, disk, mutex, ver, ret >>

Closed(lf) == [lf EXCEPT !.open = FALSE]

\* An add that goes on when Install failed after it had resolved a version.
InstallFailedUnresolved(inst) == inst.err # "nil" /\ inst.version = NilVersion

\* if err := plugin.Install(versionSpec); err != nil
InstallFailed(inst) == inst.err # "nil"

\* addPlugin(pluginName) with the --version flag: the whole handler.
addPlugin(bytes, d, name, flag, a, io) ==
    LET r == [IdleRun EXCEPT !.cmd = "add", !.name = name, !.versionSpec = flag,
                             !.pc = "done"]
        Saved(inst, sv) ==
            [run |-> [r EXCEPT !.status = IF sv.err = "nil" THEN "ok" ELSE "error",
                               !.version = inst.version, !.saves = 1],
             bytes |-> sv.bytes, dir |-> inst.dir, lf |-> Closed(sv.lf)]
        AfterInstall(lf, inst) ==
            IF InstallFailed(inst)
            THEN [run |-> [r EXCEPT !.status = "error"],
                  bytes |-> bytes, dir |-> inst.dir, lf |-> Closed(lf)]
            ELSE IF lf.PluginSpecs.nil
            THEN \* assignment to an entry of a nil map
                 [run |-> [r EXCEPT !.status = "panic", !.version = inst.version],
                  bytes |-> bytes, dir |-> inst.dir, lf |-> Closed(lf)]
            ELSE Saved(inst, Save([lf EXCEPT !.PluginSpecs =
                                      Specs(MapSet(@.m, name, GitRef(inst.version)))],
                                  bytes, io))
        Loaded(g) ==
            IF g.err # "nil"
            THEN [run |-> [r EXCEPT !.status = "error"], bytes |-> bytes, dir |-> d,
                  lf |-> NoLockfile]
            ELSE AfterInstall(g.lf,
                            Install(d, IF flag = Empty THEN MapGet(g.lf.PluginSpecs, name)
                                       ELSE flag, a))
        Before(g, res) == [res EXCEPT !.run.before = g.lf.PluginSpecs]
        Whole(g) == Before(g, Loaded(g))
    IN  Whole(GetLockfile(bytes))

\* The values of add --version.
AddFlags == { Empty, V100, Main }

Add(name, flag, a, io) ==
    /\ Idle
    /\ LET Ended(r) ==
               /\ run' = r.run
               /\ file' = r.bytes
               /\ disk' = [disk EXCEPT ![name] = r.dir]
               /\ lockFile' = r.lf
       IN  Ended(addPlugin(file, disk[name], name, flag, a, io))
    /\ tasks' = NoTasks
    /\ UNCHANGED << mutex, ver, ret >>

\* syncPlugins: GetLockfile, then one Install per entry, in the order the map
\* yields them; message.Error ends the process at the first failure.
SyncStart ==
    /\ Idle
    /\ LET Loaded(g, r) ==
               IF g.err # "nil"
               THEN /\ run' = [r EXCEPT !.pc = "done", !.status = "error"]
                    /\ lockFile' = NoLockfile
               ELSE /\ run' = [r EXCEPT !.before = g.lf.PluginSpecs,
                                        !.todo = DOMAIN g.lf.PluginSpecs.m,
                                        !.pc = IF DOMAIN g.lf.PluginSpecs.m = {}
                                               THEN "done" ELSE "sync"]
                    /\ lockFile' = IF DOMAIN g.lf.PluginSpecs.m = {}
                                   THEN Closed(g.lf) ELSE g.lf
       IN  Loaded(GetLockfile(file), [IdleRun EXCEPT !.cmd = "sync"])
    /\ tasks' = NoTasks
    /\ UNCHANGED << file, disk, mutex, ver, ret >>

SyncStep(n, a) ==
    /\ run.pc = "sync"
    /\ n \in run.todo
    /\ LET AfterInstall(inst, left) ==
               /\ disk' = [disk EXCEPT ![n] = inst.dir]
               /\ IF inst.err # "nil"
                  THEN /\ run' = [run EXCEPT !.pc = "done", !.status = "error"]
                       /\ lockFile' = Closed(lockFile)
                  ELSE /\ run' = [run EXCEPT !.todo = left,
                                             !.pc = IF left = {} THEN "done" ELSE "sync"]
                       /\ lockFile' = IF left = {} THEN Closed(lockFile) ELSE lockFile
       IN  AfterInstall(Install(disk[n], lockFile.PluginSpecs.m[n], a), run.todo \ {n})
    /\ UNCHANGED << file, tasks, mutex, ver, ret >>

\* The goroutine of one plugin (upgrade-all), or the plugin of `upgrade <plugin>`.
NewTask(version) ==
    [ pc      |-> "check",     \* check, upgrade, lock, write, unlock, done
      version |-> version,     \* plugin.Version
      new     |-> NilVersion,  \* newVersion
      err     |-> "nil",       \* what upgradePlugin returns
      outcome |-> "pending",   \* uptodate, available, upgraded, failed
      checked |-> FALSE,       \* Check returned nil
      seen    |-> <<>> ]       \* the tags the remote held at the Check

\* Where a task would go if the mapping were written with --check too.
AfterUpgradePluginUnchecked ==
    IF run.cmd = "upgradeAll" THEN "lock" ELSE "write"

\* Where a task goes once upgradePlugin has returned.
AfterUpgradePlugin ==
    IF run.check THEN "done"
    ELSE IF run.cmd = "upgradeAll" THEN "lock"
    ELSE "write"

\* upgradeCommand(pluginName): GetLockfile, GetPlugin or Plugins(), and one
\* goroutine per plugin when no plugin is named ("" stands for no argument).
UpgradeStart(name, check) ==
    /\ Idle
    /\ LET Listed(g, ps, r) ==
               IF g.err # "nil"
               THEN /\ run' = [r EXCEPT !.pc = "done", !.status = "error"]
                    /\ lockFile' = NoLockfile
                    /\ tasks' = NoTasks
               ELSE IF name # "" /\ name \notin DOMAIN ps
               THEN /\ run' = [r EXCEPT !.pc = "done", !.status = "error"]
                    /\ lockFile' = Closed(g.lf)
                    /\ tasks' = NoTasks
               ELSE /\ run' = [r EXCEPT !.pc = "tasks"]
                    /\ lockFile' = g.lf
                    /\ tasks' = [n \in IF name = "" THEN DOMAIN ps ELSE {name}
                                   |-> NewTask(ps[n])]
           Loaded(g) ==
               Listed(g, Plugins(g.lf),
                      [IdleRun EXCEPT !.cmd = IF name = "" THEN "upgradeAll" ELSE "upgrade",
                                      !.name = name, !.check = check,
                                      !.before = g.lf.PluginSpecs])
       IN  Loaded(GetLockfile(file))
    /\ UNCHANGED << file, disk, mutex, ver, ret >>

\* upgradePlugin up to the Upgrade call: newVersion, and the early returns.
TaskCheck(n, a) ==
    /\ run.pc = "tasks"
    /\ n \in DOMAIN tasks
    /\ tasks[n].pc = "check"
    /\ LET Returned(r, c) ==
               tasks' = [tasks EXCEPT ![n] =
                   IF r.err # "nil"
                   THEN [c EXCEPT !.outcome = "failed", !.pc = AfterUpgradePlugin]
                   ELSE IF r.new = NilVersion
                   THEN [c EXCEPT !.outcome = "uptodate", !.pc = AfterUpgradePlugin]
                   ELSE IF run.check
                   THEN [c EXCEPT !.outcome = "available", !.new = r.new,
                                  !.pc = AfterUpgradePlugin]
                   ELSE [c EXCEPT !.new = r.new, !.pc = "upgrade"]]
           Checked(r) ==
               Returned(r, [tasks[n] EXCEPT !.version = r.version, !.err = r.err,
                                            !.checked = (r.err = "nil"),
                                            !.seen = IF r.err = "nil" THEN a.tags
                                                     ELSE <<>>])
       IN  Checked(newVersion(tasks[n].version, InRepo(disk[n], a)))
    /\ UNCHANGED << file, disk, lockFile, run, mutex, ver, ret >>

\* upgradePlugin from the Upgrade call on.
TaskUpgrade(n, a) ==
    /\ run.pc = "tasks"
    /\ n \in DOMAIN tasks
    /\ tasks[n].pc = "upgrade"
    /\ LET Upgraded(t, u) ==
               /\ disk' = [disk EXCEPT ![n] = u.dir]
               /\ tasks' = [tasks EXCEPT ![n] =
                      IF u.err # "nil"
                      THEN [t EXCEPT !.err = u.err, !.outcome = "failed",
                                     !.pc = AfterUpgradePlugin]
                      ELSE [t EXCEPT !.version = t.new, !.outcome = "upgraded",
                                     !.pc = AfterUpgradePlugin]]
       IN  Upgraded(tasks[n], Upgrade(tasks[n].new, disk[n], a))
    /\ UNCHANGED << file, lockFile, run, mutex, ver, ret >>

\* A Lock that never waits.
MutexIgnored(n) == TRUE

\* A Lock that returns only once no task is inside a git operation.
MutexFreeAfterGit(n) ==
    /\ mutex = NoOwner
    /\ \A k \in DOMAIN tasks : tasks[k].pc \notin {"check", "upgrade"}

\* lockSync.Lock() returns to n.
MutexFree(n) == mutex = NoOwner

TaskLock(n) ==
    /\ run.pc = "tasks"
    /\ n \in DOMAIN tasks
    /\ tasks[n].pc = "lock"
    /\ MutexFree(n)
    /\ mutex' = n
    /\ tasks' = [tasks EXCEPT ![n].pc = "write"]
    /\ UNCHANGED << file, disk, lockFile, run, ver, ret >>

\* Every task writing one and the same key.
WrittenKeyShared(n) == AllNames[1]

\* The key and the value of lockFile.PluginSpecs[plugin.Name] = plugin.Version.GitRef().
WrittenKey(n) == n

WrittenSpec(t) == GitRef(t.version)

TaskWrite(n) ==
    /\ run.pc = "tasks"
    /\ n \in DOMAIN tasks
    /\ tasks[n].pc = "write"
    /\ lockFile' = [lockFile EXCEPT !.PluginSpecs =
                       Specs(MapSet(@.m, WrittenKey(n), WrittenSpec(tasks[n])))]
    /\ tasks' = [tasks EXCEPT ![n].pc =
                    IF run.cmd = "upgradeAll" THEN "unlock" ELSE "done"]
    /\ UNCHANGED << file, disk, run, mutex, ver, ret >>

\* lockSync.Unlock(), and the deferred wg.Done().
TaskUnlock(n) ==
    /\ run.pc = "tasks"
    /\ n \in DOMAIN tasks
    /\ tasks[n].pc = "unlock"
    /\ mutex' = NoOwner
    /\ tasks' = [tasks EXCEPT ![n].pc = "done"]
    /\ UNCHANGED << file, disk, lockFile, run, ver, ret >>

\* A Wait that returns as soon as one task is done.
SomeTaskDone == \E n \in DOMAIN tasks : tasks[n].pc = "done"

\* wg.Wait() returns.
AllTasksDone == \A n \in DOMAIN tasks : tasks[n].pc = "done"

Join ==
    /\ run.pc = "tasks"
    /\ AllTasksDone
    /\ run' = [run EXCEPT !.pc = IF run.check THEN "done" ELSE "save"]
    /\ lockFile' = IF run.check THEN Closed(lockFile) ELSE lockFile
    /\ UNCHANGED << file, disk, tasks, mutex, ver, ret >>

\* if !uCheckFlag { lockFile.Save() }, and the deferred Close.
SaveStep(io) ==
    /\ run.pc = "save"
    /\ LET Saved(sv) ==
               /\ file' = sv.bytes
               /\ lockFile' = Closed(sv.lf)
               /\ run' = [run EXCEPT !.pc = "done", !.saves = @ + 1,
                                     !.status = IF sv.err = "nil" THEN "ok" ELSE "error"]
       IN  Saved(Save(lockFile, file, io))
    /\ UNCHANGED << disk, tasks, mutex, ver, ret >>

\* ------------------------------------------------------------------------
\* Spec: the commands, run one after the other on one machine.

\* The specs a hand-written lockfile gives a plugin.
InitSpecs == { V100, Main }

\* The lockfile before the first command: absent or empty, written by hand
\* (the README invites editing it), or cut short.
InitFiles ==
    { <<>>, << TokOpen >> }
        \cup { Marshal(Specs(m)) : m \in UNION { [S -> InitSpecs] : S \in SUBSET Names } }

NoRet ==
    [ op |-> "none", arg |-> <<>>, out |-> Empty, err |-> "nil", ok |-> FALSE,
      new |-> NilVersion, recv |-> NilVersion, after |-> NilVersion,
      checked |-> FALSE ]

Init ==
    /\ file \in InitFiles
    /\ disk = [n \in Names |-> NoDir]
    /\ lockFile = NoLockfile
    /\ run = IdleRun
    /\ tasks = NoTasks
    /\ mutex = NoOwner
    /\ ver = NilVersion
    /\ ret = NoRet

Next ==
    \/ \E n \in Names, flag \in AddFlags, a \in InstallAnswers, io \in IoAnswers :
           Add(n, flag, a, io)
    \/ SyncStart
    \/ \E n \in Names, a \in InstallAnswers : SyncStep(n, a)
    \/ Exit

Spec == Init /\ [][Next]_vars

\* ------------------------------------------------------------------------
\* SpecUpgrade: the upgrade command, on a machine whose lockfile lists plugins
\* that earlier commands installed.

\* The specs of the lockfile when upgrade runs: as add saved them, or edited
\* by hand, with or without the leading "v".
UpgradeSpecs == { V100, U100, Main }

\* The directory Install leaves for a plugin it checked out at spec.
Installed(spec) == [state |-> "cloned", head |-> GitRef(VersionFromSpec(spec))]

InitUpgrade ==
    /\ \E S \in SUBSET Names : \E m \in [S -> UpgradeSpecs] :
          /\ file = Marshal(Specs(m))
          /\ disk = [n \in Names |-> IF n \in S THEN Installed(m[n]) ELSE NoDir]
    /\ lockFile = NoLockfile
    /\ run = IdleRun
    /\ tasks = NoTasks
    /\ mutex = NoOwner
    /\ ver = NilVersion
    /\ ret = NoRet

NextUpgrade ==
    \/ \E n \in Names \cup {""}, check \in BOOLEAN : UpgradeStart(n, check)
    \/ \E n \in Names, a \in CheckAnswers : TaskCheck(n, a)
    \/ \E n \in Names, a \in UpgradeAnswers : TaskUpgrade(n, a)
    \/ \E n \in Names : TaskLock(n)
    \/ \E n \in Names : TaskWrite(n)
    \/ \E n \in Names : TaskUnlock(n)
    \/ Join
    \/ \E io \in IoAnswers : SaveStep(io)

SpecUpgrade == InitUpgrade /\ [][NextUpgrade]_vars

\* Upgrade commands run one after the other, each in a process of its own.
NextUpgradeSeq ==
    \/ NextUpgrade
    \/ Exit

InitUpgradeSeq ==
    /\ \E S \in SUBSET { AllNames[i] : i \in 1..SeqPlugins } :
          \E m \in [S -> UpgradeSpecs] :
              /\ file = Marshal(Specs(m))
              /\ disk = [n \in Names |-> IF n \in S THEN Installed(m[n]) ELSE NoDir]
    /\ lockFile = NoLockfile
    /\ run = IdleRun
    /\ tasks = NoTasks
    /\ mutex = NoOwner
    /\ ver = NilVersion
    /\ ret = NoRet

SpecUpgradeSeq == InitUpgradeSeq /\ [][NextUpgradeSeq]_vars

\* The plugin whose git operations may never return.
HungPlugin == AllNames[1]

\* What the Go scheduler and sync.Mutex give the tasks: a git operation of
\* any plugin but HungPlugin returns, a goroutine that can run does run, and
\* a goroutine waiting in Lock gets the mutex (sync.Mutex hands it over to a
\* starving waiter).
UpgradeFairness ==
    /\ \A n \in Names \ {HungPlugin} :
          /\ WF_vars(\E a \in CheckAnswers : TaskCheck(n, a))
          /\ WF_vars(\E a \in UpgradeAnswers : TaskUpgrade(n, a))
    /\ \A n \in Names :
          /\ SF_vars(TaskLock(n))
          /\ WF_vars(TaskWrite(n))
          /\ WF_vars(TaskUnlock(n))

\* The upgrade command with its scheduling.
SpecUpgradeHung == SpecUpgrade /\ UpgradeFairness

\* ------------------------------------------------------------------------
\* SpecVersion: the Version values of lib and the functions on them, called
\* in any order on the answers git may give.

V1 == << "v", "1" >>

V03 == << "v", "0", ".", "3" >>

V125 == << "v", "1", ".", "2", ".", "5" >>

V120RC == V120 \o << "-", "r", "c", ".", "1" >>

Blank == << " ", " " >>

NotAVersion ==
    << "n", "o", "t", " ", "a", " ", "v", "e", "r", "s", "i", "o", "n" >>

\* The strings maxVersion is handed: those of TestMaxVersion, and two that
\* compare equal (v1 and v1.0.0).
Candidates == { Empty, Blank, NotAVersion, V1, V03, V125, V100, V120RC }

CandidateLists == UNION { [1..k -> Candidates] : k \in 0..MaxLen }

\* The tags a remote may hold when Check or FindBestVersion lists them.
VersionTags == RemoteTags \cup { << VNext >>, << V120RC >>, << V1 >>, << V120, V120RC >> }

\* The specs VersionFromSpec is handed.
VersionSpecs == { Empty, V100, U100, V120, V120RC, Main, VNext }

\* A command that fails leaves nothing after it to read.
VersionAnswers ==
    { Ans("none", t, c) : t \in VersionTags, c \in Commits }
        \cup { Ans(f, <<>>, HeadCommit) :
                   f \in {"fetch", "tag", "branch", "short", "upstream"} }

InitVersion ==
    /\ file = <<>>
    /\ disk = [n \in Names |-> NoDir]
    /\ lockFile = NoLockfile
    /\ run = IdleRun
    /\ tasks = NoTasks
    /\ mutex = NoOwner
    /\ ver = NilVersion
    /\ ret \in { [NoRet EXCEPT !.arg = versions] : versions \in CandidateLists }

\* maxVersion(versions), on the list the initial state holds.
CallMaxVersion ==
    /\ ret.op = "none"
    /\ ret' = [ret EXCEPT !.op = "maxVersion", !.out = maxVersion(ret.arg)]
    /\ UNCHANGED << ver, cmdVars >>

CallVersionFromSpec(spec) ==
    /\ ver' = VersionFromSpec(spec)
    /\ ret' = [NoRet EXCEPT !.op = "VersionFromSpec", !.out = spec]
    /\ UNCHANGED cmdVars

CallFindBestVersion(a) ==
    /\ LET Returned(r) ==
               /\ ver' = IF r.err = "nil" THEN r.version ELSE ver
               /\ ret' = [NoRet EXCEPT !.op = "FindBestVersion", !.arg = a.tags,
                                       !.err = r.err, !.new = r.version,
                                       !.checked = r.err # "nil" /\ ret.checked]
       IN  Returned(FindBestVersion(a))
    /\ UNCHANGED cmdVars

CallCheck(a) ==
    /\ ver # NilVersion
    /\ LET Returned(r) ==
               /\ ver' = r.recv
               /\ ret' = [NoRet EXCEPT !.op = "Check", !.arg = a.tags, !.err = r.err,
                                       !.recv = ver, !.after = r.recv,
                                       !.checked = ret.checked \/ r.err = "nil"]
       IN  Returned(Check(ver, a))
    /\ UNCHANGED cmdVars

CallHasUpgrade ==
    /\ ver # NilVersion
    /\ LET Returned(h) ==
               /\ ver' = h.recv
               /\ ret' = [NoRet EXCEPT !.op = "HasUpgrade", !.ok = h.ok, !.new = h.new,
                                       !.recv = ver, !.after = h.recv,
                                       !.checked = ret.checked]
       IN  Returned(HasUpgrade(ver))
    /\ UNCHANGED cmdVars

\* upgradePlugin: plugin.Version = newVersion.
AdoptNewVersion ==
    /\ ret.op = "HasUpgrade"
    /\ ret.ok
    /\ ver' = ret.new
    /\ ret' = [NoRet EXCEPT !.op = "adopt"]
    /\ UNCHANGED cmdVars

NextVersion ==
    \/ CallMaxVersion
    \/ \E spec \in VersionSpecs : CallVersionFromSpec(spec)
    \/ \E a \in VersionAnswers : CallFindBestVersion(a)
    \/ \E a \in VersionAnswers : CallCheck(a)
    \/ CallHasUpgrade
    \/ AdoptNewVersion

SpecVersion == InitVersion /\ [][NextVersion]_vars

\* ------------------------------------------------------------------------
\* SpecPlugin: CheckInstalled, Install and Uninstall called on the plugins,
\* in any order, whatever is at the paths of their directories.

\* What has been done to each plugin's directory: "installed" once an Install
\* has returned nil, "uninstallFailed" and "uninstalled" once an Uninstall
\* has been run on an installed plugin and returned an error, resp. nil.
NoHistory == [n \in Names |-> "none"]

\* The last call: the method, the plugin, what it returned and the directory
\* it found.
NoCall == [op |-> "none", name |-> "", err |-> "nil", dir |-> NoDir]

UninstallAnswers == { Ans(f, <<>>, HeadCommit) : f \in {"none", "remove"} }

InitPlugin ==
    /\ file = <<>>
    /\ disk \in [Names -> {NoDir, NotADir, Unreachable}]
    /\ lockFile = NoLockfile
    /\ run = IdleRun
    /\ tasks = NoHistory
    /\ mutex = NoOwner
    /\ ver = NilVersion
    /\ ret = NoCall

CallCheckInstalled(n) ==
    /\ ret' = [op |-> "CheckInstalled", name |-> n, err |-> CheckInstalled(disk[n]),
               dir |-> disk[n]]
    /\ UNCHANGED << file, disk, lockFile, run, tasks, mutex, ver >>

CallInstall(n, a) ==
    /\ LET Returned(i) ==
               /\ disk' = [disk EXCEPT ![n] = i.dir]
               /\ tasks' = [tasks EXCEPT ![n] =
                      IF i.err = "nil" THEN "installed"
                      ELSE IF @ \in {"installed", "uninstallFailed"} THEN @
                      ELSE "none"]
               /\ ret' = [op |-> "Install", name |-> n, err |-> i.err, dir |-> disk[n]]
       IN  Returned(Install(disk[n], Empty, a))
    /\ UNCHANGED << file, lockFile, run, mutex, ver >>

CallUninstall(n, a) ==
    /\ LET Returned(u) ==
               /\ disk' = [disk EXCEPT ![n] = u.dir]
               /\ tasks' = [tasks EXCEPT ![n] =
                      IF @ \in {"installed", "uninstallFailed"}
                      THEN IF u.err = "nil" THEN "uninstalled" ELSE "uninstallFailed"
                      ELSE @]
               /\ ret' = [op |-> "Uninstall", name |-> n, err |-> u.err, dir |-> disk[n]]
       IN  Returned(Uninstall(disk[n], a))
    /\ UNCHANGED << file, lockFile, run, mutex, ver >>

NextPlugin ==
    \/ \E n \in Names : CallCheckInstalled(n)
    \/ \E n \in Names, a \in InstallAnswers : CallInstall(n, a)
    \/ \E n \in Names, a \in UninstallAnswers : CallUninstall(n, a)

SpecPlugin == InitPlugin /\ [][NextPlugin]_vars

\* ------------------------------------------------------------------------
\* SpecLoad: the load command on a lockfile whose plugins are installed or
\* not, with directories holding scripts that succeed or fail.

\* The Load of one plugin: pending, skipped (not among the plugins named),
\* loaded, failed; the entries its directory held and the ones that were run.
NewLoad(selected) ==
    [ pc      |-> IF selected THEN "pending" ELSE "skipped",
      entries |-> <<>>,
      ran     |-> <<>>,
      err     |-> "nil" ]

\* loadCommand(pluginNames) up to the loop: GetLockfile and Plugins().
LoadStart(pluginNames) ==
    /\ Idle
    /\ LET Listed(g, ps, r) ==
               IF g.err # "nil"
               THEN /\ run' = [r EXCEPT !.pc = "done", !.status = "error"]
                    /\ lockFile' = NoLockfile
                    /\ tasks' = NoTasks
               ELSE IF \A n \in DOMAIN ps : pluginNames # {} /\ n \notin pluginNames
               THEN /\ run' = [r EXCEPT !.pc = "done"]
                    /\ lockFile' = Closed(g.lf)
                    /\ tasks' = [n \in DOMAIN ps |-> NewLoad(FALSE)]
               ELSE /\ run' = [r EXCEPT !.pc = "loading"]
                    /\ lockFile' = g.lf
                    /\ tasks' = [n \in DOMAIN ps |->
                                    NewLoad(pluginNames = {} \/ n \in pluginNames)]
           Loaded(g) ==
               Listed(g, Plugins(g.lf),
                      [IdleRun EXCEPT !.cmd = "load", !.args = pluginNames,
                                      !.before = g.lf.PluginSpecs])
       IN  Loaded(GetLockfile(file))
    /\ UNCHANGED << file, disk, mutex, ver, ret >>

\* One turn of the loop, on the plugin the range over Plugins() yields next:
\* plugin.Load(), message.Error when it fails (the process exits with status
\* 1), message.Info otherwise; after the last plugin the command returns.
LoadStep(n, entries) ==
    /\ run.pc = "loading"
    /\ n \in DOMAIN tasks
    /\ tasks[n].pc = "pending"
    /\ LET Returned(l) ==
               /\ tasks' = [tasks EXCEPT ![n] =
                      [@ EXCEPT !.pc = IF l.err = "nil" THEN "loaded" ELSE "failed",
                                !.entries = entries, !.ran = l.ran, !.err = l.err]]
               /\ IF l.err # "nil"
                  THEN /\ run' = [run EXCEPT !.pc = "done", !.status = "error"]
                       /\ lockFile' = Closed(lockFile)
                  ELSE IF \A k \in DOMAIN tasks \ {n} : tasks[k].pc # "pending"
                  THEN /\ run' = [run EXCEPT !.pc = "done"]
                       /\ lockFile' = Closed(lockFile)
                  ELSE UNCHANGED << run, lockFile >>
       IN  Returned(Load(disk[n], entries))
    /\ UNCHANGED << file, disk, mutex, ver, ret >>

InitLoad ==
    /\ \E S \in SUBSET Names : \E m \in [S -> InitSpecs] :
          /\ file = Marshal(Specs(m))
          /\ \E I \in SUBSET S :
                disk = [n \in Names |-> IF n \in I THEN Installed(m[n]) ELSE NoDir]
    /\ lockFile = NoLockfile
    /\ run = IdleRun
    /\ tasks = NoTasks
    /\ mutex = NoOwner
    /\ ver = NilVersion
    /\ ret = NoRet

NextLoad ==
    \/ \E pluginNames \in SUBSET Names : LoadStart(pluginNames)
    \/ \E n \in Names, entries \in EntryLists : LoadStep(n, entries)

SpecLoad == InitLoad /\ [][NextLoad]_vars

\* ------------------------------------------------------------------------
\* SpecRemove: remove commands, one process after the other, on lockfiles
\* whose plugins are installed or not.

\* A remove that goes on whatever Uninstall returned.
UninstallErrorIgnored(u) == FALSE

\* if err := plugin.Uninstall(); err != nil
UninstallFailed(u) == u.err # "nil"

\* removeCommand(pluginName): the whole handler.  The run it ends with, the
\* bytes of the lockfile, the plugin's directory, the handle, and what
\* Uninstall returned when it was called.
removeCommand(bytes, d, name, a, io) ==
    LET r == [IdleRun EXCEPT !.cmd = "remove", !.name = name, !.pc = "done"]
        Saved(u, sv) ==
            [run   |-> [r EXCEPT !.status = IF sv.err = "nil" THEN "ok" ELSE "error",
                                 !.saves = 1],
             bytes |-> sv.bytes, dir |-> u.dir, lf |-> Closed(sv.lf),
             call  |-> [op |-> "Uninstall", name |-> name, err |-> u.err, dir |-> d]]
        Uninstalled(lf, u) ==
            IF UninstallFailed(u)
            THEN [run   |-> [r EXCEPT !.status = "error"],
                  bytes |-> bytes, dir |-> u.dir, lf |-> Closed(lf),
                  call  |-> [op |-> "Uninstall", name |-> name, err |-> u.err, dir |-> d]]
            ELSE Saved(u, Save([lf EXCEPT !.PluginSpecs =
                                   IF @.nil THEN @ ELSE Specs(MapDelete(@.m, name))],
                               bytes, io))
        Loaded(g) ==
            IF g.err # "nil"
            THEN [run |-> [r EXCEPT !.status = "error"], bytes |-> bytes, dir |-> d,
                  lf |-> NoLockfile, call |-> NoCall]
            ELSE IF name \notin DOMAIN Plugins(g.lf)
            THEN [run |-> [r EXCEPT !.status = "error"], bytes |-> bytes, dir |-> d,
                  lf |-> Closed(g.lf), call |-> NoCall]
            ELSE Uninstalled(g.lf, Uninstall(d, a))
        Before(g, res) == [res EXCEPT !.run.before = g.lf.PluginSpecs]
        Whole(g) == Before(g, Loaded(g))
    IN  Whole(GetLockfile(bytes))

Remove(name, a, io) ==
    /\ Idle
    /\ LET Ended(r) ==
               /\ run' = r.run
               /\ file' = r.bytes
               /\ disk' = [disk EXCEPT ![name] = r.dir]
               /\ lockFile' = r.lf
               /\ ret' = r.call
       IN  Ended(removeCommand(file, disk[name], name, a, io))
    /\ tasks' = NoTasks
    /\ UNCHANGED << mutex, ver >>

\* The process ends; what the last Uninstall returned goes with it.
ExitRemove ==
    /\ run.pc = "done"
    /\ run' = IdleRun
    /\ lockFile' = NoLockfile
    /\ ret' = NoCall
    /\ UNCHANGED << file, disk, tasks, mutex, ver >>

InitRemove ==
    /\ \E S \in SUBSET Names : \E m \in [S -> InitSpecs] : \E I \in SUBSET S :
          /\ file \in { Marshal(Specs(m)), <<>>, << TokOpen >> }
          /\ disk = [n \in Names |-> IF n \in I THEN Installed(m[n]) ELSE NoDir]
    /\ lockFile = NoLockfile
    /\ run = IdleRun
    /\ tasks = NoTasks
    /\ mutex = NoOwner
    /\ ver = NilVersion
    /\ ret = NoCall

NextRemove ==
    \/ \E n \in Names, a \in UninstallAnswers, io \in IoAnswers : Remove(n, a, io)
    \/ ExitRemove

SpecRemove == InitRemove /\ [][NextRemove]_vars

\* ------------------------------------------------------------------------
\* SpecLockfile: one lockfile, opened by GetLockfile, its mapping changed as
\* the commands change it, saved any number of times, and closed.

\* Files that are not the serialization of a mapping: cut short, or not
\* beginning as one.
CorruptFiles ==
    { << TokOpen >>,
      << TokOpen, Tok("entry", AllNames[1], V100) >>,
      << TokZero, TokOpen, TokClose >>,
      << TokOpen, TokClose, TokClose >> }

LockFiles == InitFiles \cup CorruptFiles \cup { << TokNull >> }

\* The last call on the lockfile: the function, the error it returned, and
\* the bytes of the file when it was called.
NoLockfileCall == [op |-> "none", err |-> "nil", bytes |-> <<>>]

InitLockfile ==
    /\ file \in LockFiles
    /\ disk = [n \in Names |-> NoDir]
    /\ lockFile = NoLockfile
    /\ run = IdleRun
    /\ tasks = NoTasks
    /\ mutex = NoOwner
    /\ ver = NilVersion
    /\ ret = NoLockfileCall

CallGetLockfile ==
    /\ ~lockFile.open
    /\ LET Returned(g) ==
               /\ lockFile' = g.lf
               /\ ret' = [op |-> "GetLockfile", err |-> g.err, bytes |-> file]
       IN  Returned(GetLockfile(file))
    /\ UNCHANGED << file, disk, run, tasks, mutex, ver >>

\* lockFile.PluginSpecs[name] = spec: a write to a nil map panics, and the
\* process ends.
SetPluginSpec(n, spec) ==
    /\ lockFile.open
    /\ IF lockFile.PluginSpecs.nil
       THEN /\ lockFile' = NoLockfile
            /\ ret' = [op |-> "set", err |-> "panic", bytes |-> file]
       ELSE /\ lockFile' = [lockFile EXCEPT !.PluginSpecs = Specs(MapSet(@.m, n, spec))]
            /\ ret' = [op |-> "set", err |-> "nil", bytes |-> file]
    /\ UNCHANGED << file, disk, run, tasks, mutex, ver >>

\* delete(lockFile.PluginSpecs, name): nothing happens on a nil map.
DeletePluginSpec(n) ==
    /\ lockFile.open
    /\ lockFile' = [lockFile EXCEPT !.PluginSpecs =
                       IF @.nil THEN @ ELSE Specs(MapDelete(@.m, n))]
    /\ ret' = [op |-> "delete", err |-> "nil", bytes |-> file]
    /\ UNCHANGED << file, disk, run, tasks, mutex, ver >>

CallSave(io) ==
    /\ lockFile.open
    /\ LET Returned(sv) ==
               /\ file' = sv.bytes
               /\ lockFile' = sv.lf
               /\ ret' = [op |-> "Save", err |-> sv.err, bytes |-> file]
       IN  Returned(Save(lockFile, file, io))
    /\ UNCHANGED << disk, run, tasks, mutex, ver >>

CallClose ==
    /\ lockFile.open
    /\ lockFile' = NoLockfile
    /\ ret' = [op |-> "Close", err |-> "nil", bytes |-> file]
    /\ UNCHANGED << file, disk, run, tasks, mutex, ver >>

NextLockfile ==
    \/ CallGetLockfile
    \/ \E n \in Names, spec \in InitSpecs : SetPluginSpec(n, spec)
    \/ \E n \in Names : DeletePluginSpec(n)
    \/ \E io \in IoAnswers : CallSave(io)
    \/ CallClose

SpecLockfile == InitLockfile /\ [][NextLockfile]_vars

\* ------------------------------------------------------------------------
\* What the claims mean by "strictly greater under semantic-version
\* comparison": a valid version is greater than every string that is none.
SemverGreater(a, b) == IsValid(a) /\ (~IsValid(b) \/ SemverPrecedes(b, a))

\* C4: for every list of candidate tags, maxVersion returns a greatest element
\* among the valid semantic versions of the list, and the empty string when
\* the list holds no valid semantic version.
C4_MaxVersionGreatestValid ==
    ret.op = "maxVersion" =>
        IF \E e \in Elems(ret.arg) : IsValid(e)
        THEN IsGreatestValid(ret.out, ret.arg)
        ELSE ret.out = Empty

\* C9: Tag-based HasUpgrade returns true with a new Version (current = the
\* receiver's latest, latest empty) exactly when the receiver's latest is not
\* empty and strictly greater than its current; otherwise false and no
\* Version; the receiver is unchanged.
C9_TagHasUpgrade ==
    (ret.op = "HasUpgrade" /\ ret.recv.kind = "sem") =>
        LET r == ret.recv
        IN  /\ ret.ok <=> (r.latestVersion # Empty
                            /\ SemverGreater(r.latestVersion, r.currentVersion))
            /\ ret.ok => ret.new = SemanticVersion(r.latestVersion, Empty)
            /\ ~ret.ok => ret.new = NilVersion
            /\ ret.after = r

\* C9 witness: HasUpgrade has reported an upgrade of a Tag-based Version whose
\* latest a Check recorded.
C9_Witness ==
    /\ ret.op = "HasUpgrade"
    /\ ret.recv.kind = "sem"
    /\ ret.ok
    /\ ret.recv.latestVersion = V120
    /\ ret.recv.currentVersion = V100

\* C10: Branch-based HasUpgrade returns true exactly when currentHash and
\* latestHash are both non-empty and differ; the new Version has the
\* receiver's latestHash as its currentHash and the same branch; the receiver
\* is unchanged.
C10_BranchHasUpgrade ==
    (ret.op = "HasUpgrade" /\ ret.recv.kind = "git") =>
        LET r == ret.recv
        IN  /\ ret.ok <=> (r.currentHash # Empty /\ r.latestHash # Empty
                            /\ r.currentHash # r.latestHash)
            /\ ret.ok => /\ ret.new.kind = "git"
                         /\ ret.new.currentHash = r.latestHash
                         /\ ret.new.branch = r.branch
            /\ ~ret.ok => ret.new = NilVersion
            /\ ret.after = r

\* C10 witness: HasUpgrade has reported an upgrade of a Branch-based Version.
C10_Witness ==
    /\ ret.op = "HasUpgrade"
    /\ ret.recv.kind = "git"
    /\ ret.recv.latestHash # Empty
    /\ ret.ok

\* ------------------------------------------------------------------------
\* The upgrade command.

\* A spec as parsing leaves it: "v" is put before a spec that is a semantic
\* version only with it.
NormalizedSpec(spec) ==
    IF ~IsValid(spec) /\ IsValid(<< "v" >> \o spec) THEN << "v" >> \o spec ELSE spec

\* upgrade-all without --check, its tasks joined.
UpgradeAllJoined ==
    /\ run.cmd = "upgradeAll"
    /\ ~run.check
    /\ run.pc \in {"save", "done"}

\* The spec the lockfile on disk gives plugin n.
PersistedSpec(n) ==
    LET g == GetLockfile(file)
    IN  IF g.err = "nil" THEN MapGet(g.lf.PluginSpecs, n) ELSE Empty

\* C1: once upgrade-all without --check has joined its tasks, under every
\* interleaving, the mapping has the keys it was loaded with, and gives each
\* plugin the spec of its upgrade target when its upgrade succeeded and
\* otherwise (up to date, check failed, upgrade failed) the spec it was loaded
\* with as parsing normalises it; no write is lost or overwritten.
C1_UpgradeAllMapping ==
    UpgradeAllJoined =>
        /\ DOMAIN lockFile.PluginSpecs.m = DOMAIN run.before.m
        /\ \A n \in DOMAIN run.before.m :
              /\ tasks[n].outcome \in {"upgraded", "uptodate", "failed"}
              /\ lockFile.PluginSpecs.m[n] =
                    IF tasks[n].outcome = "upgraded" THEN GitRef(tasks[n].new)
                    ELSE NormalizedSpec(run.before.m[n])

\* C1 as the specification words it: the plugins not upgraded keep the
\* original spec, character for character.
C1_UpgradeAllMappingOriginal ==
    UpgradeAllJoined =>
        /\ DOMAIN lockFile.PluginSpecs.m = DOMAIN run.before.m
        /\ \A n \in DOMAIN run.before.m :
              lockFile.PluginSpecs.m[n] =
                  IF tasks[n].outcome = "upgraded" THEN GitRef(tasks[n].new)
                  ELSE run.before.m[n]

\* C1 witness: upgrade-all has finished with one plugin upgraded, and another
\* whose check or upgrade failed.
C1_Witness ==
    /\ UpgradeAllJoined
    /\ run.pc = "done"
    /\ \E n, k \in DOMAIN tasks :
          /\ tasks[n].outcome = "upgraded"
          /\ lockFile.PluginSpecs.m[n] = V120
          /\ run.before.m[n] = V100
          /\ tasks[k].outcome = "failed"
          /\ lockFile.PluginSpecs.m[k] = run.before.m[k]

\* C2: in upgrade-all without --check Save runs exactly once, and only after
\* every task has finished, its write included: Save has not run, and is not
\* about to, while a task checks, upgrades, waits for the lock or writes.
C2_SaveOnceAfterJoin ==
    (run.cmd = "upgradeAll" /\ ~run.check) =>
        /\ run.saves <= 1
        /\ (run.pc = "save" \/ run.saves > 0) =>
               \A n \in DOMAIN tasks : tasks[n].pc = "done"
        /\ run.pc = "done" => run.saves = 1
        /\ run.pc # "done" => run.saves = 0

\* C2 witness: Save has run, after two tasks wrote.
C2_Witness ==
    /\ run.cmd = "upgradeAll"
    /\ ~run.check
    /\ run.saves = 1
    /\ Cardinality(DOMAIN tasks) >= 2

\* The tasks between Lock and Unlock.
InCriticalSection == { n \in DOMAIN tasks : tasks[n].pc \in {"write", "unlock"} }

\* C3: in upgrade-all a task that writes the mapping holds the mutex, no two
\* tasks are between Lock and Unlock at once, a write changes the entry of the
\* writer's own plugin and no other, and the keys of the mapping stay those
\* it was loaded with.
C3_WritesUnderMutex ==
    /\ [](run.cmd = "upgradeAll" =>
            /\ \A n \in InCriticalSection : mutex = n
            /\ Cardinality(InCriticalSection) <= 1
            /\ run.pc # "idle" =>
                   DOMAIN lockFile.PluginSpecs.m = DOMAIN run.before.m)
    /\ [][(run.cmd = "upgradeAll" /\ lockFile'.PluginSpecs # lockFile.PluginSpecs) =>
            \E n \in DOMAIN tasks :
               /\ mutex = n
               /\ tasks[n].pc = "write"
               /\ tasks'[n].pc = "unlock"
               /\ \A k \in DOMAIN lockFile.PluginSpecs.m \ {n} :
                     lockFile'.PluginSpecs.m[k] = lockFile.PluginSpecs.m[k]]_vars

\* C3 witness: a task holds the mutex, about to write, while another waits
\* for it.
C3_Witness ==
    /\ run.cmd = "upgradeAll"
    /\ \E n, k \in DOMAIN tasks :
          /\ tasks[n].pc = "write"
          /\ mutex = n
          /\ tasks[k].pc = "lock"

\* A Tag-based plugin whose Check found tags with a valid one above its spec,
\* and whose checkout did not fail.
TagUpgradeFound(n) ==
    /\ n \in DOMAIN tasks
    /\ n \in DOMAIN run.before.m
    /\ IsValid(NormalizedSpec(run.before.m[n]))
    /\ tasks[n].checked
    /\ \E m \in Elems(tasks[n].seen) :
          SemverGreater(m, NormalizedSpec(run.before.m[n]))
    /\ tasks[n].outcome # "failed"

\* The upgrade command without --check has ended.
UpgradeEnded ==
    /\ run.cmd \in {"upgrade", "upgradeAll"}
    /\ ~run.check
    /\ run.pc = "done"

AddEnded ==
    /\ run.cmd = "add"
    /\ run.pc = "done"
    /\ run.status = "ok"

\* C5: after add --version <spec> the lockfile read back gives the plugin the
\* requested spec, and that version is the one checked out.
C5_AddStoresRequested ==
    (AddEnded /\ run.versionSpec # Empty) =>
        /\ PersistedSpec(run.name) = NormalizedSpec(run.versionSpec)
        /\ disk[run.name].head = NormalizedSpec(run.versionSpec)

\* C6: add <plugin> without --version, for a plugin the lockfile already
\* lists, leaves the plugin's spec in the lockfile as it was.
C6_AddKeepsPersisted ==
    (AddEnded /\ run.versionSpec = Empty /\ run.name \in DOMAIN run.before.m) =>
        PersistedSpec(run.name) = run.before.m[run.name]

\* C7: after add without a plugin argument every plugin of the lockfile is
\* installed, and the ref checked out is its spec in the lockfile.
C7_SyncInstallsAtSpec ==
    (run.cmd = "sync" /\ run.pc = "done" /\ run.status = "ok") =>
        \A n \in DOMAIN run.before.m :
           /\ disk[n].state = "cloned"
           /\ disk[n].head = NormalizedSpec(PersistedSpec(n))

\* ------------------------------------------------------------------------
\* C11.  A Version on which no Check has succeeded since it was created (by
\* VersionFromSpec, by FindBestVersion or as the new Version of an earlier
\* HasUpgrade) reports no upgrade: HasUpgrade returns false and no Version,
\* for the tag-based and for the branch-based variant.  ret.checked records
\* whether a Check has returned nil on ver since ver was created.
C11_NoUpgradeBeforeCheck ==
    (ret.op = "HasUpgrade" /\ ~ret.checked) => (~ret.ok /\ ret.new = NilVersion)

\* HasUpgrade has been called on a branch-based Version whose commit is known
\* and on which the only Checks so far have failed.
C11_Witness ==
    /\ ret.op = "HasUpgrade"
    /\ ~ret.checked
    /\ ret.recv.kind = "git"
    /\ ret.recv.currentHash # Empty

\* C12.  Whatever Checks a tag-based Version has been through, against
\* whatever tags the remote held, its latest is empty or not below its
\* current in semantic-version order.
C12_LatestNotBelowCurrent ==
    ver.kind = "sem" =>
        \/ ver.latestVersion = Empty
        \/ ~SemverGreater(ver.currentVersion, ver.latestVersion)

\* C13.  A tag-based Check whose git commands succeed returns ErrNoVersions
\* and leaves the receiver as it was when the remote's tags hold no valid
\* semantic version; otherwise it returns nil, sets latest to the greatest
\* valid tag and leaves current as it was.
C13_CheckNoVersions ==
    (ret.op = "Check" /\ ret.recv.kind = "sem" /\ ret.err # "git") =>
        IF \E t \in Elems(ret.arg) : IsValid(t)
        THEN /\ ret.err = "nil"
             /\ IsGreatestValid(ret.after.latestVersion, ret.arg)
             /\ ret.after.currentVersion = ret.recv.currentVersion
        ELSE /\ ret.err = "ErrNoVersions"
             /\ ret.after = ret.recv

\* C14.  A FindBestVersion whose git commands succeed returns a tag-based
\* Version whose current is the greatest valid tag when the remote holds a
\* valid tag, and a branch-based Version (default upstream branch, short
\* commit id) exactly when it holds none; the current of a tag-based result
\* is always a valid semantic version.
C14_FindBestVersionKind ==
    (ret.op = "FindBestVersion" /\ ret.err = "nil") =>
        IF \E t \in Elems(ret.arg) : IsValid(t)
        THEN /\ ret.new.kind = "sem"
             /\ IsGreatestValid(ret.new.currentVersion, ret.arg)
        ELSE /\ ret.new.kind = "git"
             /\ ret.new.branch = OriginMain
             /\ ret.new.currentHash \in { c.short : c \in Commits }

\* C15.  The git reference of VersionFromSpec(s) is s itself when s is a
\* valid semantic version or is none even with "v" prepended, and "v" + s
\* when s is valid only with "v" prepended; converting the reference again
\* gives the same reference.
C15_GitRefOfSpec ==
    ret.op = "VersionFromSpec" =>
        /\ GitRef(ver) = IF ~IsValid(ret.out) /\ IsValid(<< "v" >> \o ret.out)
                         THEN << "v" >> \o ret.out
                         ELSE ret.out
        /\ GitRef(VersionFromSpec(GitRef(ver))) = GitRef(ver)

\* VersionFromSpec("1.0.0"): the reference is "v1.0.0".
C15_Witness ==
    /\ ret.op = "VersionFromSpec"
    /\ ret.out = U100
    /\ GitRef(ver) = V100

\* C16.  When the check or the upgrade of at least one plugin has failed,
\* upgrade-all ends reporting failure (message.Error, exit status 1), the
\* specs of the plugins it upgraded being saved all the same.
C16_UpgradeAllReportsFailure ==
    ( /\ run.cmd = "upgradeAll"
      /\ run.pc = "done"
      /\ \E n \in DOMAIN tasks : tasks[n].outcome = "failed" )
        => run.status = "error"

C18_CheckInstalledErrors ==
    ret.op = "CheckInstalled" =>
        /\ ret.err = "ErrPluginNotInstalled" <=> ret.dir.state \in {"absent", "file"}
        /\ ret.dir.state \in {"empty", "cloned"} => ret.err = "nil"
        /\ ret.dir.state = "denied" => ret.err = Stat(ret.dir).err

\* C19.  CheckInstalled returns ErrPluginNotInstalled for a plugin whose
\* directory is missing, nil once an Install of the plugin has returned nil
\* and for as long as no Uninstall of it has returned nil, failed Uninstalls
\* and failed further Installs included, and ErrPluginNotInstalled again once
\* an Uninstall has returned nil.
C19_InstalledUntilUninstalled ==
    ret.op = "CheckInstalled" =>
        /\ ret.dir.state = "absent" => ret.err = "ErrPluginNotInstalled"
        /\ tasks[ret.name] \in {"installed", "uninstallFailed"} => ret.err = "nil"
        /\ tasks[ret.name] = "uninstalled" => ret.err = "ErrPluginNotInstalled"

\* C19 as the specification words it: CheckInstalled fails with
\* ErrPluginNotInstalled once Uninstall has been run, whatever it returned.
C19_InstalledUntilUninstallRun ==
    ret.op = "CheckInstalled" =>
        /\ ret.dir.state = "absent" => ret.err = "ErrPluginNotInstalled"
        /\ tasks[ret.name] = "installed" => ret.err = "nil"
        /\ tasks[ret.name] \in {"uninstallFailed", "uninstalled"} =>
               ret.err = "ErrPluginNotInstalled"

\* C19 witness: CheckInstalled has returned ErrPluginNotInstalled for a
\* plugin that was installed and then uninstalled.
C19_Witness ==
    /\ ret.op = "CheckInstalled"
    /\ tasks[ret.name] = "uninstalled"
    /\ ret.err = "ErrPluginNotInstalled"

\* The scripts of a directory listing: the regular files named *.tmux.
IsScript(e) == e.tmux /\ e.regular

\* C20.  When the load command has ended, every plugin of the lockfile that
\* was selected has had its Load started, whatever the Loads of the others
\* returned; and of a plugin one of whose scripts failed, the scripts before
\* the failing one have been run and the ones after it have not.
C20_LoadIsolatesFailures ==
    (run.cmd = "load" /\ run.pc = "done") =>
        \A n \in DOMAIN tasks :
            /\ tasks[n].pc # "pending"
            /\ tasks[n].err = "exit" =>
                   \E i \in 1..Len(tasks[n].entries) :
                       /\ IsScript(tasks[n].entries[i])
                       /\ ~tasks[n].entries[i].ok
                       /\ Elems(tasks[n].ran) =
                              { j \in 1..i : IsScript(tasks[n].entries[j]) }

\* C21.  GetLockfile on a file that is not empty and does not parse as a
\* mapping returns the parse error and no Lockfile: no handle is open and no
\* mapping, empty or partial, is handed out; the bytes of the file are the
\* ones it found.
C21_ParseFailureSurfaced ==
    (ret.op = "GetLockfile" /\ ret.bytes # <<>> /\ ~Unmarshal(ret.bytes).ok) =>
        /\ ret.err = "json"
        /\ lockFile = NoLockfile
        /\ file = ret.bytes

\* C21 witness: GetLockfile has failed on a lockfile cut short after its
\* first entry.
C21_Witness ==
    /\ ret.op = "GetLockfile"
    /\ ret.err = "json"
    /\ Len(ret.bytes) = 2
    /\ ret.bytes[2].t = "entry"

\* C22.  After a Save that returned nil the file holds the serialization of
\* the mapping in memory and nothing else, and GetLockfile on it returns a
\* mapping equal to the one saved, whatever writes, deletions and Saves the
\* handle has been through.
C22_SaveRoundTrip ==
    (ret.op = "Save" /\ ret.err = "nil") =>
        /\ file = Marshal(lockFile.PluginSpecs)
        /\ GetLockfile(file).err = "nil"
        /\ GetLockfile(file).lf.PluginSpecs = lockFile.PluginSpecs

\* C22 witness: Save has succeeded with a mapping shorter than the contents
\* the file had before.
C22_Witness ==
    /\ ret.op = "Save"
    /\ ret.err = "nil"
    /\ Len(file) < Len(ret.bytes)
    /\ ~lockFile.PluginSpecs.nil

\* C23.  A tag-based Version whose latest is strictly greater than its
\* current reports the upgrade at every HasUpgrade, which leaves the Version
\* as it was; and a Check that succeeds against the tags the previous
\* successful Check saw leaves latest, and with it the result of HasUpgrade,
\* as they were.
C23_HasUpgradeStable ==
    /\ []((ret.op = "HasUpgrade" /\ ret.recv.kind = "sem") =>
            /\ ret.after = ret.recv
            /\ SemverGreater(ret.recv.latestVersion, ret.recv.currentVersion) =>
                   /\ ret.ok
                   /\ ret.new = SemanticVersion(ret.recv.latestVersion, Empty))
    /\ [][( /\ ret.op = "Check" /\ ret.err = "nil" /\ ver.kind = "sem"
            /\ ret'.op = "Check" /\ ret'.err = "nil" /\ ret'.arg = ret.arg )
          => /\ ver' = ver
             /\ HasUpgrade(ver') = HasUpgrade(ver)]_vars

\* C23 witness: a Check has been run again on a tag-based Version that
\* already held the latest it found, an upgrade over its current.
C23_Witness ==
    /\ ret.op = "Check"
    /\ ret.err = "nil"
    /\ ret.recv.kind = "sem"
    /\ ret.recv.latestVersion = V120
    /\ ret.after.latestVersion = V120
    /\ ret.after.currentVersion = V100
    /\ HasUpgrade(ver).ok

\* C24.  In upgrade-all without --check, whether or not the git operations
\* of HungPlugin's task ever return, the task of every other plugin
\* eventually finishes its check and upgrade, writes its entry of the
\* mapping and ends; and a task inside a git operation does not hold the
\* mutex.
C24_HungTaskBlocksNoOther ==
    /\ [](\A n \in DOMAIN tasks :
              tasks[n].pc \in {"check", "upgrade"} => mutex # n)
    /\ \A n \in Names \ {HungPlugin} :
          (run.cmd = "upgradeAll" /\ ~run.check /\ n \in DOMAIN tasks)
              ~> (n \in DOMAIN tasks /\ tasks[n].pc = "done")

\* C24 witness: another plugin's task has written and ended while the task
\* of HungPlugin is still inside its first git operation.
C24_Witness ==
    /\ run.cmd = "upgradeAll"
    /\ ~run.check
    /\ HungPlugin \in DOMAIN tasks
    /\ tasks[HungPlugin].pc = "check"
    /\ \E n \in DOMAIN tasks \ {HungPlugin} :
          /\ tasks[n].pc = "done"
          /\ tasks[n].outcome = "upgraded"
          /\ lockFile.PluginSpecs.m[n] = GitRef(tasks[n].new)

\* C25.  add <plugin> on an absent or empty lockfile, its Install having
\* succeeded, ends without a panic, and when its Save succeeds the lockfile
\* read back maps the plugin to the spec Install resolved.
C25_AddOnEmptyLockfile ==
    ( /\ run.cmd = "add"
      /\ run.pc = "done"
      /\ run.before.nil
      /\ run.version # NilVersion )
        => /\ run.status # "panic"
           /\ run.status = "ok" => PersistedSpec(run.name) = GitRef(run.version)

\* The plugins of the running upgrade whose lockfile spec is a branch name.
BranchPlugins ==
    { n \in DOMAIN tasks : ~IsValid(NormalizedSpec(run.before.m[n])) }

IsTagSpec(spec) == IsValid(NormalizedSpec(spec))

PathJoin(dir, name) == << dir, name >>

\* The values of $HOME and of $XDG_CONFIG_HOME: unset, an absolute
\* directory, and (for $XDG_CONFIG_HOME) a relative one.
Unset == ""

HomeValues == { Unset, "/home/u" }

XdgValues == { Unset, "/xdg", "xdg" }

IsAbs(dir) == dir \in { "/home/u", "/xdg", "/home/u/.config" }

\* os.UserHomeDir on Unix.
UserHomeDir(env) ==
    IF env.HOME = Unset THEN [dir |-> Unset, err |-> "$HOME is not defined"]
    ELSE [dir |-> env.HOME, err |-> "nil"]

\* os.UserConfigDir on Unix: $XDG_CONFIG_HOME when it is set (it must be
\* absolute), $HOME/.config otherwise.
UserConfigDir(env) ==
    IF env.XDG_CONFIG_HOME = Unset
    THEN IF env.HOME = Unset
         THEN [dir |-> Unset, err |-> "neither $XDG_CONFIG_HOME nor $HOME are defined"]
         ELSE [dir |-> "/home/u/.config", err |-> "nil"]
    ELSE IF ~IsAbs(env.XDG_CONFIG_HOME)
         THEN [dir |-> Unset, err |-> "path in $XDG_CONFIG_HOME is relative"]
         ELSE [dir |-> env.XDG_CONFIG_HOME, err |-> "nil"]

\* The paths a configuration file can be at.
ConfigPaths ==
    { PathJoin("/home/u", ".tmux.conf"),
      PathJoin("/home/u/.config", "tmux/tmux.conf"),
      PathJoin("/xdg", "tmux/tmux.conf") }

\* What is at a path: nothing, something that cannot be reached, or a file
\* (each file has contents of its own).
ConfigFile(p) == [state |-> "file", head |-> << p[1] >>]

PathStates(p) == { NoDir, Unreachable, ConfigFile(p) }

ConfigFiles ==
    { f \in [ConfigPaths -> UNION { PathStates(p) : p \in ConfigPaths }] :
         \A p \in ConfigPaths : f[p] \in PathStates(p) }

\* os.Stat(p), of a path that may be none of the candidates.
StatPath(d, p) == IF p \in DOMAIN d.files THEN Stat(d.files[p]) ELSE Stat(NoDir)

NoPath == Empty

\* err == nil after os.Stat
StatFound(s) == s.err = "nil"

\* GetTmuxConfigPath: the path and the error it returns. The second
\* candidate is statted, and configPath, still the first one, is returned.
GetTmuxConfigPath(d) ==
    LET Second(configPath, configDir) ==
            LET Statted(s) ==
                    IF StatFound(s) THEN [path |-> configPath, err |-> "nil"]
                    ELSE IF ~IsNotExist(s.err) THEN [path |-> NoPath, err |-> s.err]
                    ELSE [path |-> NoPath, err |-> "ErrNoTmuxConfig"]
            IN  IF configDir.err # "nil" THEN [path |-> NoPath, err |-> configDir.err]
                ELSE Statted(StatPath(d, PathJoin(configDir.dir, "tmux/tmux.conf")))
        First(configPath) ==
            LET Statted(s) ==
                    IF StatFound(s) THEN [path |-> configPath, err |-> "nil"]
                    ELSE IF ~IsNotExist(s.err) THEN [path |-> NoPath, err |-> s.err]
                    ELSE Second(configPath, UserConfigDir(d.env))
            IN  Statted(StatPath(d, configPath))
        Homed(home) ==
            IF home.err # "nil" THEN [path |-> NoPath, err |-> home.err]
            ELSE First(PathJoin(home.dir, ".tmux.conf"))
    IN  Homed(UserHomeDir(d.env))

NoConfigCall == [op |-> "none", path |-> NoPath, err |-> "nil"]

NoInit == [cmd |-> "none", cfgFlag |-> NoPath, status |-> "none", out |-> Empty]

InitConfig ==
    /\ \E h \in HomeValues, x \in XdgValues, f \in ConfigFiles :
            disk = [env |-> [HOME |-> h, XDG_CONFIG_HOME |-> x], files |-> f]
    /\ file = Empty
    /\ lockFile = NoLockfile
    /\ run = NoInit
    /\ tasks = NoTasks
    /\ mutex = NoOwner
    /\ ver = NilVersion
    /\ ret = NoConfigCall

CallGetTmuxConfigPath ==
    /\ LET Returned(g) ==
               ret' = [op |-> "GetTmuxConfigPath", path |-> g.path, err |-> g.err]
       IN  Returned(GetTmuxConfigPath(disk))
    /\ UNCHANGED << file, disk, lockFile, run, tasks, mutex, ver >>

\* tim init [--config path]: the path is the flag, or the one that
\* GetTmuxConfigPath finds; log.Fatal ends the process when there is no
\* path or the file cannot be opened, and the contents are printed
\* otherwise.
initCommand(cfgFlag) ==
    /\ LET Opened(p, s) ==
               IF s.err # "nil"
               THEN run' = [cmd |-> "init", cfgFlag |-> cfgFlag, status |-> "fatal", out |-> Empty]
               ELSE run' = [cmd |-> "init", cfgFlag |-> cfgFlag, status |-> "ok",
                            out |-> disk.files[p].head]
           Found(g) ==
               IF g.err # "nil"
               THEN run' = [cmd |-> "init", cfgFlag |-> cfgFlag, status |-> "fatal", out |-> Empty]
               ELSE Opened(g.path, StatPath(disk, g.path))
       IN  IF cfgFlag # NoPath
           THEN Opened(cfgFlag, StatPath(disk, cfgFlag))
           ELSE Found(GetTmuxConfigPath(disk))
    /\ UNCHANGED << file, disk, lockFile, tasks, mutex, ver, ret >>

NextConfig ==
    \/ CallGetTmuxConfigPath
    \/ \E cfgFlag \in {NoPath} \cup ConfigPaths : initCommand(cfgFlag)

SpecConfig == InitConfig /\ [][NextConfig]_vars

\* A candidate that os.Stat finds, and one that it finds absent.
Exists(p) == StatPath(disk, p).err = "nil"

NotExists(p) == IsNotExist(StatPath(disk, p).err)

HomeCandidate == PathJoin(disk.env.HOME, ".tmux.conf")

ConfigCandidate == PathJoin(UserConfigDir(disk.env).dir, "tmux/tmux.conf")

\* C30: when GetTmuxConfigPath returns no error, the path it returns is a
\* candidate that exists: ~/.tmux.conf when that exists, and tmux/tmux.conf
\* under the user configuration directory otherwise; and with both
\* candidates named, it returns ErrNoTmuxConfig exactly when neither exists.
C30_ConfigPathExists ==
    ret.op = "GetTmuxConfigPath" =>
        /\ ret.err = "nil" =>
              /\ Exists(ret.path)
              /\ ret.path = IF Exists(HomeCandidate) THEN HomeCandidate ELSE ConfigCandidate
        /\ ret.err = "ErrNoTmuxConfig" =>
              NotExists(HomeCandidate) /\ NotExists(ConfigCandidate)
        /\ (/\ UserHomeDir(disk.env).err = "nil"
            /\ UserConfigDir(disk.env).err = "nil"
            /\ NotExists(HomeCandidate) /\ NotExists(ConfigCandidate))
              => ret.err = "ErrNoTmuxConfig"

\* The part of C30 that the code keeps: no error means that one of the
\* candidates exists, and ErrNoTmuxConfig is for neither existing.
C30_SomeCandidateExists ==
    ret.op = "GetTmuxConfigPath" =>
        /\ ret.err = "nil" =>
              /\ ret.path = HomeCandidate
              /\ Exists(HomeCandidate) \/ Exists(ConfigCandidate)
        /\ ret.err = "ErrNoTmuxConfig" =>
              NotExists(HomeCandidate) /\ NotExists(ConfigCandidate)
        /\ (/\ UserHomeDir(disk.env).err = "nil"
            /\ UserConfigDir(disk.env).err = "nil"
            /\ NotExists(HomeCandidate) /\ NotExists(ConfigCandidate))
              => ret.err = "ErrNoTmuxConfig"

\* The case of C30 that fails: only the second candidate exists.
C30_OnlySecondCandidate ==
    /\ ret.op = "GetTmuxConfigPath" /\ ret.err = "nil"
    /\ NotExists(HomeCandidate) /\ Exists(ConfigCandidate)
    /\ ret.path = HomeCandidate

====
